---- MODULE Spec2Model ----
(***************************************************************************)
(* A model of inadyn's configuration loader, src/conf.c: the libConfuse    *)
(* validators, the endpoint resolver getserver(), the provider builder     *)
(* set_provider_opts()/create_provider(), the catalog info_list with its   *)
(* static iterator and its teardown, and conf_parse_file().                *)
(*                                                                         *)
(* C strings are sequences of one-character strings.  A NULL string is the *)
(* one-element sequence NULL, which is no character string.  Records of    *)
(* the catalog live at heap addresses 1..MaxAddrs; the null pointer is 0.  *)
(* The buffer sizes and periods of ddns.h are scaled down so that every    *)
(* boundary (below, at, above a size) is inside the input sets.            *)
(***************************************************************************)
EXTENDS Integers, Sequences, FiniteSets, TLC

(* ------------------------------ bounds -------------------------------- *)

\* Sections of one kind ("provider" or "custom") in a configuration file.
MaxSections == 2
\* Longest string list (hostname, alias, ddns-response) in a section.
MaxHosts == 3
\* Longest string of a configuration file.
MaxStrLen == 4
\* Addresses of the heap the provider records are allocated from.
MaxAddrs == 4
\* Longest input of the endpoint resolver when it is called on its own.
MaxServerLen == 4

(* ------------------- constants of ddns.h, scaled down ------------------ *)

DDNS_MIN_PERIOD == 2
DDNS_MAX_PERIOD == 4
DDNS_DEFAULT_PERIOD == 3
DDNS_ERROR_UPDATE_PERIOD == 1
DDNS_FORCED_UPDATE_PERIOD == 5
DDNS_DEFAULT_ITERATIONS == 0
HTTP_DEFAULT_PORT == 80

\* sizeof(name->name) of a ddns_name_t
SizeofName == 3
\* sizeof(info.alias[0].name)
SizeofAliasName == 3
\* sizeof(info->creds.username), sizeof(info->creds.password)
SizeofUsername == 2
SizeofPassword == 2
\* sizeof(info->checkip_url), sizeof(info->server_url)
SizeofCheckipUrl == 2
SizeofServerUrl == 2
\* sizeof(info->server_response[0]), NELEMS(info->server_response)
SizeofServerResponse == 2
NelemsServerResponse == 2
\* NELEMS(info->alias)
NelemsAlias == 2

\* The null pointer, and the NULL string.
NULLPTR == 0
NULL == <<"NULL">>

(* ------------------------------ strings ------------------------------- *)

Min(a, b) == IF a < b THEN a ELSE b

AStr(n) == [i \in 1..n |-> "a"]
BStr(n) == [i \in 1..n |-> "b"]

\* strlcpy(dst, src, size): dst receives at most size-1 characters of src.
strlcpy(src, size) == SubSeq(src, 1, Min(Len(src), size - 1))

\* strchr(str, ':'): the index of the first colon, 0 when there is none.
strchr_colon(str) ==
    IF \E i \in 1..Len(str) : str[i] = ":"
    THEN CHOOSE i \in 1..Len(str) :
             /\ str[i] = ":"
             /\ \A k \in 1..(i - 1) : str[k] # ":"
    ELSE 0

Digit ==
    "0" :> 0 @@ "1" :> 1 @@ "2" :> 2 @@ "3" :> 3 @@ "4" :> 4 @@
    "5" :> 5 @@ "6" :> 6 @@ "7" :> 7 @@ "8" :> 8 @@ "9" :> 9

RECURSIVE DecimalValue(_)
DecimalValue(str) ==
    IF str = <<>> THEN 0
    ELSE 10 * DecimalValue(SubSeq(str, 1, Len(str) - 1)) + Digit[str[Len(str)]]

\* atonum(str): the non-negative integer str spells, -1 when it spells none.
atonum(str) ==
    IF str # <<>> /\ \A i \in 1..Len(str) : str[i] \in DOMAIN Digit
    THEN DecimalValue(str)
    ELSE -1

(* ------------------------- endpoint resolver -------------------------- *)

\* getserver(server, name): rc 0 and the resolved *name, or rc 1 and *name
\* as it was.  nomem: strdup() returns NULL.
getserver(server, name, nomem) ==
    IF Len(server) > SizeofName THEN [rc |-> 1, name |-> name]
    ELSE IF nomem THEN [rc |-> 1, name |-> name]
    ELSE
        LET ptr  == strchr_colon(server)
            str  == IF ptr # 0 THEN SubSeq(server, 1, ptr - 1) ELSE server
            num  == IF ptr # 0
                    THEN atonum(SubSeq(server, ptr + 1, Len(server)))
                    ELSE HTTP_DEFAULT_PORT
            port == IF num = -1 THEN HTTP_DEFAULT_PORT ELSE num
        IN  [rc |-> 0, name |-> [name |-> strlcpy(str, SizeofName), port |-> port]]

\* A ddns_name_t of a calloc()ed record.
ZeroName == [name |-> <<>>, port |-> 0]

(* --------------------------- plugin registry --------------------------- *)

\* The descriptors plugin_find() returns: the defaults of a built-in
\* provider ("p1"), of a provider whose default server name is longer than
\* a record holds ("big"), and of the generic plugin of custom sections.
Plugins ==
    [p1     |-> [checkip_name |-> <<"a">>,           checkip_url |-> <<"a">>,
                 server_name  |-> <<"b", ":", "8">>, server_url  |-> <<"b">>],
     big    |-> [checkip_name |-> <<"a">>,           checkip_url |-> <<"a">>,
                 server_name  |-> AStr(SizeofName + 1), server_url |-> <<"b">>],
     custom |-> [checkip_name |-> <<"a">>,           checkip_url |-> <<"a">>,
                 server_name  |-> <<"a">>,           server_url  |-> <<"a">>]]

\* The same registry with a generic plugin whose default update URL is
\* longer than a record holds.
PluginsLongCustom ==
    [Plugins EXCEPT !.custom.server_url = AStr(SizeofServerUrl + 1)]

Registries == [good |-> Plugins, longcustom |-> PluginsLongCustom]

\* plugin_find(name): the descriptor's name, "" when there is none.
plugin_find(registry, name) ==
    IF name \in DOMAIN Registries[registry] THEN name ELSE ""

\* generic_responses[], without its terminating NULL.
generic_responses == << <<"a">>, <<"b">>, <<"a", "b">> >>

(* ------------------------ configuration files -------------------------- *)

\* A cfg_t section: the options of provider_opts and custom_opts.
BaseProvider ==
    [title |-> "p1", username |-> AStr(1), password |-> AStr(1),
     hostname |-> <<AStr(1)>>, alias |-> <<>>, ssl |-> FALSE, wildcard |-> FALSE,
     append_myip |-> FALSE, ddns_server |-> NULL, ddns_path |-> NULL,
     ddns_response |-> <<>>, checkip_server |-> NULL, checkip_path |-> NULL]

BaseCustom ==
    [title |-> "c1", username |-> NULL, password |-> NULL,
     hostname |-> <<BStr(1)>>, alias |-> <<>>, ssl |-> FALSE, wildcard |-> FALSE,
     append_myip |-> FALSE, ddns_server |-> BStr(1), ddns_path |-> NULL,
     ddns_response |-> <<>>, checkip_server |-> NULL, checkip_path |-> NULL]

Names == {AStr(n) : n \in 1..MaxStrLen} \cup {BStr(1)}

\* a, b, a, ... of length k
Alt(k) == [i \in 1..k |-> IF i % 2 = 1 THEN AStr(1) ELSE BStr(1)]

StrLists ==
    {<<n>> : n \in Names} \cup {Alt(k) : k \in 2..MaxHosts}
        \cup {<<BStr(1), AStr(1)>>}

OptStrs == {NULL} \cup {AStr(n) : n \in 1..MaxStrLen}

ServerStrs ==
    {NULL, <<"a", ":", "8">>, <<"a", ":", "x">>, <<"a", ":">>}
        \cup {AStr(n) : n \in (SizeofName - 1)..MaxStrLen}

\* The sections that differ from base in the options every section has.
CommonSections(base) ==
    {base}
        \cup {[base EXCEPT !.username = s] : s \in OptStrs}
        \cup {[base EXCEPT !.password = s] : s \in OptStrs}
        \cup {[base EXCEPT !.hostname = l] : l \in StrLists \cup {<<>>}}
        \cup {[base EXCEPT !.hostname = <<>>, !.alias = l] : l \in StrLists}
        \cup {[base EXCEPT !.alias = <<BStr(1)>>]}
        \cup {[base EXCEPT !.ssl = TRUE], [base EXCEPT !.wildcard = TRUE]}

ProviderSections ==
    CommonSections(BaseProvider)
        \cup {[BaseProvider EXCEPT !.title = t] : t \in {"big", "zz"}}

CustomSections ==
    CommonSections(BaseCustom)
        \cup {[BaseCustom EXCEPT !.append_myip = TRUE]}
        \cup {[BaseCustom EXCEPT !.ddns_server = s] : s \in ServerStrs}
        \cup {[BaseCustom EXCEPT !.checkip_server = s] : s \in ServerStrs}
        \cup {[BaseCustom EXCEPT !.ddns_path = s] : s \in OptStrs}
        \cup {[BaseCustom EXCEPT !.checkip_path = s] : s \in OptStrs}
        \cup {[BaseCustom EXCEPT !.ddns_response = l] : l \in StrLists}

CoreProviderSections ==
    {BaseProvider, [BaseProvider EXCEPT !.title = "zz"],
     [BaseProvider EXCEPT !.hostname = Alt(MaxHosts)]}

CoreCustomSections ==
    {BaseCustom, [BaseCustom EXCEPT !.hostname = <<>>, !.alias = Alt(2)]}

SeqsUpTo(S, n) == UNION {[1..k -> S] : k \in 0..n}

BaseSeq(base, n) == [i \in 1..n |-> base]

\* The section lists with n sections, all base but at most one.
OneOff(base, S, n) ==
    {[BaseSeq(base, n) EXCEPT ![i] = s] : i \in 1..n, s \in S}

Periods == (DDNS_MIN_PERIOD - 1)..(DDNS_MAX_PERIOD + 1)

File(period, provider, custom) ==
    [period |-> period, provider |-> provider, custom |-> custom]

\* The configuration files: every period with base sections; one section
\* of either kind, at any position, differing from base in one option; and
\* every combination of the core sections.
Files ==
    UNION {
        {File(p, BaseSeq(BaseProvider, n), BaseSeq(BaseCustom, m)) : p \in Periods}
        \cup {File(DDNS_DEFAULT_PERIOD, l, BaseSeq(BaseCustom, m)) :
                l \in OneOff(BaseProvider, ProviderSections, n)}
        \cup {File(DDNS_DEFAULT_PERIOD, BaseSeq(BaseProvider, n), l) :
                l \in OneOff(BaseCustom, CustomSections, m)}
        : n \in 0..MaxSections, m \in 0..MaxSections}
    \cup {File(DDNS_DEFAULT_PERIOD, l, k) :
            l \in SeqsUpTo(CoreProviderSections, MaxSections),
            k \in SeqsUpTo(CoreCustomSections, MaxSections)}

BaseFiles ==
    {File(DDNS_DEFAULT_PERIOD, BaseSeq(BaseProvider, n), BaseSeq(BaseCustom, m)) :
        n \in 0..MaxSections, m \in 0..MaxSections}

Input(file, once, registry, oom) ==
    [file |-> file, once |-> once, registry |-> registry, oom |-> oom]

\* What a run of the program is given: the file, the --once flag, the
\* plugins linked in, and the call of calloc() that finds no memory in a
\* load (0: none).
Inputs ==
    {Input(f, FALSE, "good", 0) : f \in Files}
        \cup {Input(f, TRUE, "good", 0) : f \in BaseFiles}
        \cup {Input(f, FALSE, "longcustom", 0) : f \in BaseFiles}
        \cup UNION {{Input(f, FALSE, "good", k) : k \in 1..(Len(f.provider) + Len(f.custom))} :
                      f \in BaseFiles}

(* ------------------------------ validators ----------------------------- *)

\* deprecate_alias(cfg): rc, and the section with 'alias' moved to 'hostname'.
deprecate_alias(cfg) ==
    IF Len(cfg.alias) <= 0 THEN [rc |-> 0, cfg |-> cfg]
    ELSE IF Len(cfg.hostname) > 0 THEN [rc |-> -1, cfg |-> cfg]
    ELSE [rc |-> 0, cfg |-> [cfg EXCEPT !.hostname = cfg.alias, !.alias = <<>>]]

\* validate_period(cfg, opt): val is a local; the option is not written.
validate_period(cfg) ==
    LET val0 == cfg.period
        val1 == IF val0 < DDNS_MIN_PERIOD THEN DDNS_MIN_PERIOD ELSE val0
        val2 == IF val1 > DDNS_MAX_PERIOD THEN DDNS_MAX_PERIOD ELSE val1
    IN  [rc |-> 0, cfg |-> cfg]

\* validate_hostname(cfg, provider, hostname)
validate_hostname(hostname) ==
    IF Len(hostname) = 0 THEN -1
    ELSE IF \E i \in 1..Len(hostname) : SizeofAliasName < Len(hostname[i]) THEN -1
    ELSE 0

\* validate_common(cfg, provider, custom): rc, and the section as
\* deprecate_alias() leaves it.
validate_common(cfg, provider, custom, registry) ==
    IF plugin_find(registry, provider) = "" THEN [rc |-> -1, cfg |-> cfg]
    ELSE IF ~custom /\ cfg.username = NULL THEN [rc |-> -1, cfg |-> cfg]
    ELSE IF ~custom /\ cfg.password = NULL THEN [rc |-> -1, cfg |-> cfg]
    ELSE
        LET d == deprecate_alias(cfg)
        IN  IF d.rc # 0 THEN [rc |-> 1, cfg |-> d.cfg]
            ELSE [rc  |-> IF validate_hostname(d.cfg.hostname) # 0 THEN 1 ELSE 0,
                  cfg |-> d.cfg]

\* The section a validator inspects: cfg_opt_getnsec(opt, 0).
cfg_opt_getnsec_0(opt) == 1

\* validate_provider(cfg, opt): opt holds the sections accepted so far.
validate_provider(opt, registry) ==
    LET n == cfg_opt_getnsec_0(opt)
        r == validate_common(opt[n], opt[n].title, FALSE, registry)
    IN  IF opt[n].title = "" THEN [rc |-> -1, opt |-> opt]
        ELSE [rc |-> r.rc, opt |-> [opt EXCEPT ![n] = r.cfg]]

\* validate_custom(cfg, opt)
validate_custom(opt, registry) ==
    LET n == cfg_opt_getnsec_0(opt)
    IN  IF opt[n].ddns_server = NULL THEN [rc |-> -1, opt |-> opt]
        ELSE LET r == validate_common(opt[n], "custom", TRUE, registry)
             IN  [rc |-> r.rc, opt |-> [opt EXCEPT ![n] = r.cfg]]

\* The parser accepts the sections of one kind in file order and calls the
\* kind's validator after each.
RECURSIVE accept_sections(_, _, _, _)
accept_sections(opt, rest, custom, registry) ==
    IF rest = <<>> THEN [rc |-> 0, opt |-> opt]
    ELSE
        LET v == IF custom
                 THEN validate_custom(Append(opt, Head(rest)), registry)
                 ELSE validate_provider(Append(opt, Head(rest)), registry)
        IN  IF v.rc # 0 THEN [rc |-> v.rc, opt |-> v.opt]
            ELSE accept_sections(v.opt, Tail(rest), custom, registry)

NoCfg == [parsed |-> FALSE, period |-> 0, provider |-> <<>>, custom |-> <<>>]

\* cfg_parse(cfg, file) with the validators conf_parse_file() registers.
cfg_parse(file, registry) ==
    LET per  == validate_period(file)
        prov == accept_sections(<<>>, file.provider, FALSE, registry)
        cust == accept_sections(<<>>, file.custom, TRUE, registry)
    IN  IF per.rc # 0 \/ prov.rc # 0 \/ cust.rc # 0
        THEN [rc |-> "CFG_PARSE_ERROR", cfg |-> NoCfg]
        ELSE [rc  |-> "CFG_SUCCESS",
              cfg |-> [parsed |-> TRUE, period |-> per.cfg.period,
                       provider |-> prov.opt, custom |-> cust.opt]]

(* --------------------------- provider builder -------------------------- *)

\* What a write past the end of info->alias[] does: the process dies, or
\* the bytes behind the array change and alias_count reads back as count.
UBOutcomes ==
    {[crash |-> TRUE, count |-> 0]}
        \cup {[crash |-> FALSE, count |-> n] : n \in 0..MaxHosts}

\* calloc(1, sizeof(ddns_info_t)) at addr.  src names the section the
\* record is built from; overrun tells a write past the end of alias[].
ZeroInfo(addr, custom, index) ==
    [addr |-> addr, src |-> [custom |-> custom, index |-> index],
     system |-> "", checkip_name |-> ZeroName, checkip_url |-> <<>>,
     server_name |-> ZeroName, server_url |-> <<>>,
     wildcard |-> FALSE, ssl_enabled |-> FALSE, append_myip |-> FALSE,
     username |-> <<>>, password |-> <<>>,
     alias |-> [i \in 1..NelemsAlias |-> <<>>], alias_count |-> 0,
     server_response |-> [i \in 1..NelemsServerResponse |-> <<>>],
     server_response_num |-> 0, overrun |-> FALSE]

\* for (j = 0; j < cfg_size(cfg, "hostname"); j++) ...
RECURSIVE hostname_loop(_, _, _, _)
hostname_loop(hostname, j, info, ub) ==
    IF j > Len(hostname) THEN [info |-> info, crashed |-> FALSE]
    ELSE
        LET pos == info.alias_count
        IN  IF pos < NelemsAlias
            THEN hostname_loop(hostname, j + 1,
                     [info EXCEPT !.alias[pos + 1] = strlcpy(hostname[j], SizeofAliasName),
                                  !.alias_count = pos + 1], ub)
            ELSE IF ub.crash THEN [info |-> info, crashed |-> TRUE]
            ELSE hostname_loop(hostname, j + 1,
                     [info EXCEPT !.overrun = TRUE, !.alias_count = ub.count], ub)

\* for (j = 0; j < cfg_size(cfg, "ddns-response"); j++) ...
RECURSIVE response_loop(_, _, _)
response_loop(response, j, info) ==
    IF j > Len(response) THEN info
    ELSE
        LET pos == info.server_response_num
        IN  IF info.server_response_num >= NelemsServerResponse
            THEN response_loop(response, j + 1, info)
            ELSE response_loop(response, j + 1,
                     [info EXCEPT !.server_response[pos + 1] =
                                      strlcpy(response[j], SizeofServerResponse),
                                  !.server_response_num = pos + 1])

\* for (j = 0; j < NELEMS(info->server_response); j++) ... generic_responses[j]
RECURSIVE default_response_loop(_, _)
default_response_loop(j, info) ==
    IF j > NelemsServerResponse \/ j > Len(generic_responses) THEN info
    ELSE default_response_loop(j + 1,
             [info EXCEPT !.server_response[j] =
                              strlcpy(generic_responses[j], SizeofServerResponse),
                          !.server_response_num = @ + 1])

\* cfg_getserver(cfg, server, name)
cfg_getserver(str, name) ==
    IF str = NULL THEN [rc |-> 1, name |-> name] ELSE getserver(str, name, FALSE)

\* strlcpy() of an optional string that fits, else the field as it was.
copy_if_fits(str, old, size) ==
    IF str # NULL /\ Len(str) <= size THEN strlcpy(str, size) ELSE old

\* The custom-only part of set_provider_opts().
custom_opts(cfg, info) ==
    LET i1 == [info EXCEPT
                 !.append_myip  = cfg.append_myip,
                 !.checkip_name = cfg_getserver(cfg.checkip_server, @).name,
                 !.checkip_url  = copy_if_fits(cfg.checkip_path, @, SizeofCheckipUrl),
                 !.server_name  = cfg_getserver(cfg.ddns_server, @).name,
                 !.server_url   = copy_if_fits(cfg.ddns_path, @, SizeofServerUrl)]
        i2 == response_loop(cfg.ddns_response, 1, i1)
    IN  IF Len(cfg.ddns_response) = 0 THEN default_response_loop(1, i2) ELSE i2

\* set_provider_opts(cfg, info, custom): rc, *info, and whether the process
\* died on the way.
set_provider_opts(cfg, info, custom, registry, ub) ==
    LET str    == IF custom THEN "custom" ELSE cfg.title
        system == plugin_find(registry, str)
        fail   == [rc |-> 1, info |-> info, crashed |-> FALSE]
    IN  IF system = "" THEN fail
        ELSE
            LET plugin  == Registries[registry][system]
                checkip == getserver(plugin.checkip_name, info.checkip_name, FALSE)
                server  == getserver(plugin.server_name, info.server_name, FALSE)
            IN  IF checkip.rc # 0 THEN fail
                ELSE IF Len(plugin.checkip_url) > SizeofCheckipUrl THEN fail
                ELSE IF server.rc # 0 THEN fail
                ELSE IF Len(plugin.server_url) > SizeofServerUrl THEN fail
                ELSE
                    LET i1 == [info EXCEPT
                                 !.system       = system,
                                 !.checkip_name = checkip.name,
                                 !.checkip_url  = strlcpy(plugin.checkip_url, SizeofCheckipUrl),
                                 !.server_name  = server.name,
                                 !.server_url   = strlcpy(plugin.server_url, SizeofServerUrl),
                                 !.wildcard     = cfg.wildcard,
                                 !.ssl_enabled  = cfg.ssl,
                                 !.username     = copy_if_fits(cfg.username, @, SizeofUsername),
                                 !.password     = copy_if_fits(cfg.password, @, SizeofPassword)]
                        h  == hostname_loop(cfg.hostname, 1, i1, ub)
                    IN  IF h.crashed THEN [rc |-> 0, info |-> h.info, crashed |-> TRUE]
                        ELSE [rc      |-> 0,
                              info    |-> IF custom THEN custom_opts(cfg, h.info) ELSE h.info,
                              crashed |-> FALSE]

(* -------------------------------- state -------------------------------- *)

VARIABLES
    input,      \* the file and the environment of this run
    conf,       \* the tree the last cfg_parse() accepted, or NoCfg
    result,     \* what the last conf_parse_file() returned: "cfg" or "NULL"
    ctx,        \* the ddns_t runtime settings
    info_list,  \* the catalog, head first
    leaked,     \* addresses of records allocated and never inserted
    ptr,        \* the static cursor of conf_info_iterator()
    op,         \* the last operation, "badread" for conf_info_iterator(0)
                \* reading a record that was released
    server,     \* the input of a lone call of getserver()
    endpoint    \* its outcome, and whether its strdup() found no memory

vars == <<input, conf, result, ctx, info_list, leaked, ptr, op, server, endpoint>>

Addrs == 1..MaxAddrs

Live(list) == {list[i].addr : i \in 1..Len(list)}

FreeAddrs(list, lost) == Addrs \ (Live(list) \cup lost)

\* calloc(): the lowest address that holds no record.
calloc(list, lost) ==
    CHOOSE a \in FreeAddrs(list, lost) : \A b \in FreeAddrs(list, lost) : a <= b

\* LIST_INSERT_HEAD() that drops the records behind the new head.
LIST_INSERT_HEAD_only(list, info) == <<info>>

\* LIST_INSERT_HEAD(&info_list, info, link)
LIST_INSERT_HEAD(list, info) == <<info>> \o list

\* create_provider(cfg, custom), the n-th call of a load.  st: the catalog,
\* the leaked addresses, ret, and whether the process died.  env.oom: the
\* call whose calloc() returns NULL, 0 for none.
create_provider(st, cfg, custom, index, env) ==
    IF st.crashed THEN st
    ELSE IF env.oom = st.n + 1 THEN [st EXCEPT !.ret = 1, !.n = @ + 1]
    ELSE
        LET addr == calloc(st.list, st.leaked)
            r    == set_provider_opts(cfg, ZeroInfo(addr, custom, index), custom,
                                      env.registry, env.ub)
        IN  IF r.crashed
            THEN [st EXCEPT !.crashed = TRUE, !.leaked = @ \cup {addr}]
            ELSE IF r.rc # 0
            THEN [st EXCEPT !.ret = 1, !.leaked = @ \cup {addr}, !.n = @ + 1]
            ELSE [st EXCEPT !.list = LIST_INSERT_HEAD(@, r.info), !.n = @ + 1]

\* for (i = 0; i < cfg_size(cfg, name); i++) ret |= create_provider(...)
RECURSIVE create_providers(_, _, _, _, _)
create_providers(st, sections, i, custom, env) ==
    IF i > Len(sections) THEN st
    ELSE create_providers(create_provider(st, sections[i], custom, i, env),
                          sections, i + 1, custom, env)

\* "Set global options" of conf_parse_file()
global_options(tree, once) ==
    [normal_update_period_sec |-> tree.period,
     error_update_period_sec  |-> DDNS_ERROR_UPDATE_PERIOD,
     forced_update_period_sec |-> DDNS_FORCED_UPDATE_PERIOD,
     total_iterations         |-> IF once THEN 1 ELSE DDNS_DEFAULT_ITERATIONS]

\* conf_parse_file() returning the tree whatever create_provider() said.
parse_result_always(ret) == "cfg"

\* What conf_parse_file() returns once the providers are created.
parse_result(ret) == IF ret # 0 THEN "NULL" ELSE "cfg"

NSections(file) == Len(file.provider) + Len(file.custom)

ZeroCtx ==
    [normal_update_period_sec |-> 0, error_update_period_sec |-> 0,
     forced_update_period_sec |-> 0, total_iterations |-> 0]

NoEndpoint == [nomem |-> FALSE, rc |-> -1, name |-> ZeroName]

Init ==
    /\ input \in Inputs
    /\ conf = NoCfg
    /\ result = "none"
    /\ ctx = ZeroCtx
    /\ info_list = <<>>
    /\ leaked = {}
    /\ ptr = NULLPTR
    /\ op = "start"
    /\ server = <<>>
    /\ endpoint = NoEndpoint

(* ------------------------------ operations ----------------------------- *)

\* conf_parse_file(file, ctx)
Load ==
    /\ op # "crash"
    /\ Cardinality(FreeAddrs(info_list, leaked)) >= NSections(input.file)
    /\ \E p \in {cfg_parse(input.file, input.registry)} :
           IF p.rc # "CFG_SUCCESS"
           THEN /\ conf' = NoCfg
                /\ result' = "NULL"
                /\ op' = "load"
                /\ UNCHANGED <<ctx, info_list, leaked>>
           ELSE \E ub \in UBOutcomes :
                  LET env == [registry |-> input.registry, ub |-> ub, oom |-> input.oom]
                      st0 == [list |-> info_list, leaked |-> leaked, ret |-> 0,
                              crashed |-> FALSE, n |-> 0]
                      st1 == create_providers(st0, p.cfg.provider, 1, FALSE, env)
                  IN  \E st2 \in {create_providers(st1, p.cfg.custom, 1, TRUE, env)} :
                      /\ conf' = p.cfg
                      /\ ctx' = global_options(p.cfg, input.once)
                      /\ info_list' = st2.list
                      /\ leaked' = st2.leaked
                      /\ result' = IF st2.crashed THEN "none" ELSE parse_result(st2.ret)
                      /\ op' = IF st2.crashed THEN "crash" ELSE "load"
    /\ UNCHANGED <<input, ptr, server, endpoint>>

\* conf_info_iterator(1)
IterReset ==
    /\ op # "crash"
    /\ ptr' = IF info_list = <<>> THEN NULLPTR ELSE info_list[1].addr
    /\ op' = "reset"
    /\ UNCHANGED <<input, conf, result, ctx, info_list, leaked, server, endpoint>>

\* LIST_NEXT(ptr, link) of a record of the catalog
LIST_NEXT(list, p) ==
    LET i == CHOOSE k \in 1..Len(list) : list[k].addr = p
    IN  IF i < Len(list) THEN list[i + 1].addr ELSE NULLPTR

\* conf_info_iterator(0).  A cursor left on a released record reads freed
\* memory: any pointer comes back, or the process dies.
IterAdvance ==
    /\ op # "crash"
    /\ \/ /\ ptr = NULLPTR
          /\ op' = "advance"
          /\ UNCHANGED ptr
       \/ /\ ptr \in Live(info_list)
          /\ ptr' = LIST_NEXT(info_list, ptr)
          /\ op' = "advance"
       \/ /\ ptr \in leaked
          /\ ptr' = NULLPTR
          /\ op' = "advance"
       \/ /\ ptr \in FreeAddrs(info_list, leaked)
          /\ ptr' \in {NULLPTR} \cup Addrs
          /\ op' \in {"badread", "crash"}
    /\ UNCHANGED <<input, conf, result, ctx, info_list, leaked, server, endpoint>>

\* conf_info_cleanup()
Cleanup ==
    /\ op # "crash"
    /\ info_list' = <<>>
    /\ op' = "cleanup"
    /\ UNCHANGED <<input, conf, result, ctx, leaked, ptr, server, endpoint>>

Next == Load \/ IterReset \/ IterAdvance \/ Cleanup

Spec == Init /\ [][Next]_vars

(* ------------------- the endpoint resolver on its own ------------------- *)

ServerChars == {"a", ":", "8", "x"}

ServerInputs == SeqsUpTo(ServerChars, MaxServerLen)

InitServer ==
    /\ input = Input(File(DDNS_DEFAULT_PERIOD, <<>>, <<>>), FALSE, "good", 0)
    /\ conf = NoCfg
    /\ result = "none"
    /\ ctx = ZeroCtx
    /\ info_list = <<>>
    /\ leaked = {}
    /\ ptr = NULLPTR
    /\ op = "start"
    /\ server \in ServerInputs
    /\ endpoint = NoEndpoint

\* getserver(server, &name) on a zeroed name
Resolve ==
    /\ op = "start"
    /\ \E nomem \in BOOLEAN :
           \E r \in {getserver(server, ZeroName, nomem)} :
               endpoint' = [nomem |-> nomem, rc |-> r.rc, name |-> r.name]
    /\ op' = "getserver"
    /\ UNCHANGED <<input, conf, result, ctx, info_list, leaked, ptr, server>>

NextServer == Resolve

SpecServer == InitServer /\ [][NextServer]_vars

(* ----------------------------- properties ------------------------------ *)

Records == {info_list[i] : i \in 1..Len(info_list)}

\* The sections of a tree, named as a record's src names them.
SectionIds(tree) ==
    {[custom |-> FALSE, index |-> i] : i \in 1..Len(tree.provider)}
        \cup {[custom |-> TRUE, index |-> i] : i \in 1..Len(tree.custom)}

SectionOf(tree, id) ==
    IF id.custom THEN tree.custom[id.index] ELSE tree.provider[id.index]

\* The hostnames and response patterns a record holds.
Hostnames(info) == SubSeq(info.alias, 1, Min(info.alias_count, NelemsAlias))
Responses(info) == SubSeq(info.server_response, 1, info.server_response_num)

PluginOf(tree, id) == IF id.custom THEN "custom" ELSE SectionOf(tree, id).title

PluginMissing(tree, id) == PluginOf(tree, id) \notin DOMAIN Registries[input.registry]

PluginDefaultTooLong(tree, id) ==
    /\ ~PluginMissing(tree, id)
    /\ LET plugin == Registries[input.registry][PluginOf(tree, id)]
       IN  \/ Len(plugin.checkip_name) > SizeofName
           \/ Len(plugin.checkip_url) > SizeofCheckipUrl
           \/ Len(plugin.server_name) > SizeofName
           \/ Len(plugin.server_url) > SizeofServerUrl

\* Building the section fails for one of the two reasons of the builder.
BuildFails(tree, id) == PluginMissing(tree, id) \/ PluginDefaultTooLong(tree, id)

\* The section's record is the one calloc() finds no memory for.
OutOfMemory(tree, id) ==
    input.oom = (IF id.custom THEN Len(tree.provider) + id.index ELSE id.index)

Clamp(period) ==
    IF period < DDNS_MIN_PERIOD THEN DDNS_MIN_PERIOD
    ELSE IF period > DDNS_MAX_PERIOD THEN DDNS_MAX_PERIOD
    ELSE period

\* C1: after a successful load, normal_update_period_sec is the configured
\* period clamped to [DDNS_MIN_PERIOD, DDNS_MAX_PERIOD].
C1_PeriodClamped ==
    result = "cfg" => ctx.normal_update_period_sec = Clamp(input.file.period)

\* C2, as claimed: when building a section fails (plugin not found, or a
\* plugin default longer than the record holds), the load still returns the
\* configuration and the catalog holds a record of every other section.
C2_LoadStillSucceeds ==
    (op = "load" /\ conf.parsed /\ \E id \in SectionIds(conf) : BuildFails(conf, id))
        => /\ result = "cfg"
           /\ \A id \in SectionIds(conf) :
                  (~BuildFails(conf, id) /\ ~OutOfMemory(conf, id))
                      => \E info \in Records : info.src = id

\* C2, amended: when building a section fails, conf_parse_file() returns
\* NULL; the section has no record, and the catalog holds a record of every
\* section whose building did not fail.
C2_LoadFailsOthersKept ==
    (op = "load" /\ conf.parsed)
        => /\ (\E id \in SectionIds(conf) : BuildFails(conf, id)) => result = "NULL"
           /\ \A id \in SectionIds(conf) :
                  BuildFails(conf, id) => ~\E info \in Records : info.src = id
           /\ \A id \in SectionIds(conf) :
                  (~BuildFails(conf, id) /\ ~OutOfMemory(conf, id))
                      => \E info \in Records : info.src = id

\* A load in which one section failed to build and others were built.
C2_Witness ==
    /\ op = "load"
    /\ conf.parsed
    /\ result = "NULL"
    /\ input.oom = 0
    /\ \E id \in SectionIds(conf) : BuildFails(conf, id)
    /\ \E id \in SectionIds(conf) : id.custom /\ \E info \in Records : info.src = id
    /\ \E id \in SectionIds(conf) : ~id.custom /\ \E info \in Records : info.src = id

\* C3: every record of an accepted configuration has at least one hostname,
\* for the second and later sections of a kind as for the first.  (Stated
\* for the records whose hostnames all fit the alias array.)
C3_HostnamesNonEmpty ==
    conf.parsed => \A info \in Records : ~info.overrun => info.alias_count >= 1

\* C4: every bounded string a record stores (hostname, username, password,
\* response pattern) equals the configured value or is left at its default,
\* never a shortened prefix.
C4_NoTruncation ==
    conf.parsed =>
        \A info \in Records :
            LET sec == SectionOf(conf, info.src)
            IN  /\ info.username \in {sec.username, <<>>}
                /\ info.password \in {sec.password, <<>>}
                /\ ~info.overrun =>
                       \A j \in 1..Min(info.alias_count, Len(sec.hostname)) :
                           info.alias[j] \in {sec.hostname[j], <<>>}
                /\ (info.src.custom /\ sec.ddns_response # <<>>) =>
                       \A j \in 1..info.server_response_num :
                           info.server_response[j] \in {sec.ddns_response[j], <<>>}

\* C5: a load of an accepted configuration with N provider and M custom
\* sections, none of which fails to build, into an empty catalog ends with
\* exactly N+M records, one per section.
C5_OneRecordPerSection ==
    [][(/\ info_list = <<>>
        /\ op' = "load"
        /\ conf'.parsed
        /\ \A id \in SectionIds(conf') :
               ~BuildFails(conf', id) /\ ~OutOfMemory(conf', id))
       => /\ Len(info_list') = Len(input.file.provider) + Len(input.file.custom)
          /\ \A id \in SectionIds(conf') :
                 Cardinality({i \in 1..Len(info_list') : info_list'[i].src = id}) = 1]_vars

\* A load that built every section of a file with sections of both kinds.
C5_Witness ==
    /\ op = "load"
    /\ conf.parsed
    /\ leaked = {}
    /\ input.oom = 0
    /\ Len(input.file.provider) >= 2
    /\ Len(input.file.custom) >= 1
    /\ Len(info_list) = Len(input.file.provider) + Len(input.file.custom)

\* C6: a section of an accepted configuration, at any position, that sets
\* only 'alias' yields a record whose hostnames are the alias list, in
\* order.  (Stated for alias lists that fit the alias array, of names
\* shorter than an alias buffer.)
C6_AliasBecomesHostnames ==
    conf.parsed =>
        \A info \in Records :
            LET sec == SectionOf(input.file, info.src)
            IN  (/\ sec.alias # <<>>
                 /\ sec.hostname = <<>>
                 /\ Len(sec.alias) <= NelemsAlias
                 /\ \A j \in 1..Len(sec.alias) : Len(sec.alias[j]) < SizeofAliasName)
                    => /\ info.alias_count = Len(sec.alias)
                       /\ Hostnames(info) = sec.alias

\* C7: a custom record's response patterns are the generic set cut to the
\* record's capacity when 'ddns-response' is empty, and exactly the
\* configured values otherwise; they are never empty.  (Stated for
\* 'ddns-response' lists that fit the record's capacity.)
C7_ResponsePatterns ==
    conf.parsed =>
        \A info \in Records :
            LET sec == SectionOf(conf, info.src)
            IN  (info.src.custom /\ Len(sec.ddns_response) <= NelemsServerResponse)
                    => /\ info.server_response_num >= 1
                       /\ Responses(info) =
                              IF sec.ddns_response = <<>>
                              THEN SubSeq(generic_responses, 1,
                                          Min(Len(generic_responses), NelemsServerResponse))
                              ELSE sec.ddns_response

\* The host and port a 'host' or 'host:port' string names.
HostPart(str) ==
    IF strchr_colon(str) = 0 THEN str ELSE SubSeq(str, 1, strchr_colon(str) - 1)

PortPart(str) ==
    LET suffix == SubSeq(str, strchr_colon(str) + 1, Len(str))
    IN  IF strchr_colon(str) # 0 /\ atonum(suffix) >= 0
        THEN atonum(suffix)
        ELSE HTTP_DEFAULT_PORT

\* C8: getserver() refuses an input only if its host part is longer than
\* the maximum; otherwise it stores the host unchanged, with the port the
\* suffix spells or the HTTP default.  (Stated for the calls that find
\* memory, on inputs no longer than the maximum.)
C8_HostStoredUnchanged ==
    (op = "getserver" /\ ~endpoint.nomem /\ Len(server) <= SizeofName)
        => /\ endpoint.rc = 0
           /\ endpoint.name.name = HostPart(server)
           /\ endpoint.name.port = PortPart(server)

\* C9: every value the iterator yields is null or a record of the catalog,
\* and the iterator never reads a record teardown has released.
C9_IteratorInCatalog ==
    /\ op # "badread"
    /\ op \in {"reset", "advance"} => (ptr = NULLPTR \/ ptr \in Live(info_list))

\* C10: the builder writes no hostname at an index at or beyond the
\* capacity of alias[]: alias_count never exceeds the capacity.
C10_AliasWithinCapacity ==
    conf.parsed =>
        \A info \in Records : ~info.overrun /\ info.alias_count <= NelemsAlias

====
